---- MODULE Spec2Model ----
(***************************************************************************)
(* Model of functions/api/chat.js (onRequestPost): a chat proxy that tries *)
(* the GROQ endpoint and, when that attempt throws, the DEEPSEEK endpoint.  *)
(*                                                                         *)
(* One behaviour is one invocation of the handler.  An action is one run   *)
(* of the handler between two awaits (JavaScript runs to completion), or   *)
(* one timer callback.  Text is a sequence of tokens: a literal of the     *)
(* source is one token, raw provider text is one token per character, and  *)
(* concatenation / template interpolation is \o.  The two CJK literals of  *)
(* line 131 are written in ASCII ("GROQ failed: ", "; DEEPSEEK failed: "), *)
(* split into tokens so that a provider name is a token of its own.        *)
(***************************************************************************)
EXTENDS Integers, Sequences, FiniteSets, TLC

VARIABLES request, env, pc, finalMessages, timer, net, res, e1, e2,
          netlog, response, fault

vars == <<request, env, pc, finalMessages, timer, net, res, e1, e2,
          netlog, response, fault>>

\* ---------------------------------------------------------------- bounds
\* longest caller-supplied messages array that is enumerated
MaxMessages == 2
\* number of characters by which the long raw body exceeds SliceLen
RawExcess == 1

\* ------------------------------------------------------ program constants
GroqTimeoutMs == 6500
DeepseekTimeoutMs == 8500
SliceLen == 300
DefaultStatus == 200
InvalidJsonStatus == 400
TotalFailureStatus == 500

GROQ == "GROQ"
DEEPSEEK == "DEEPSEEK"
Providers == {GROQ, DEEPSEEK}

GroqUrl == <<"https://api.groq.com/openai/v1/chat/completions">>
DeepseekUrl == <<"https://api.deepseek.com/chat/completions">>
GroqDefaultModel == <<"llama-3.3-70b-versatile">>
DeepseekDefaultModel == <<"deepseek-chat">>

\* ------------------------------------------------------ JavaScript values
Undef == [t |-> "undefined"]
Str(s) == [t |-> "string", s |-> s]
Obj(m) == [t |-> "object", message |-> m]
Null == [t |-> "null"]

\* truthiness of a value (undefined, null and "" are falsy, objects are truthy)
Truthy(v) == IF v.t = "string" THEN v.s # <<>> ELSE v.t = "object"

\* a || b
OrElse(a, b) == IF Truthy(a) THEN a ELSE b

\* String(v), also the conversion done by template interpolation
ToText(v) ==
  IF v.t = "string" THEN v.s
  ELSE IF v.t = "undefined" THEN <<"undefined">>
  ELSE IF v.t = "null" THEN <<"null">>
  ELSE <<"[object Object]">>

\* sub occurs in s as a contiguous run of tokens
Contains(s, sub) ==
  \E i \in 0..(Len(s) - Len(sub)) : SubSeq(s, i + 1, i + Len(sub)) = sub

\* raw.slice(0, n)
Slice(raw, n) == SubSeq(raw, 1, IF Len(raw) < n THEN Len(raw) ELSE n)

\* an Error object: new Error(v) stores String(v) as its message
Err(name, message) == [name |-> name, message |-> message]
NewError(v) == Err(<<"Error">>, ToText(v))
NoErr == [name |-> <<>>, message |-> <<>>, none |-> TRUE]

\* String(e.message || e) of line 131: Error.prototype.toString gives the
\* name alone when the message is empty
ErrText(e) == IF e.message # <<>> THEN e.message ELSE e.name

\* ------------------------------------------------------- request inputs
POST == "POST"
OPTIONS == "OPTIONS"
Methods == {POST, OPTIONS}

\* elements of the caller's messages array (shape is never inspected)
CallerMessages ==
  { [role |-> "user", content |-> <<"hi">>],
    [role |-> "assistant", content |-> <<"salem">>] }

MessageArrays ==
  UNION { [1..n -> CallerMessages] : n \in 0..MaxMessages }

\* body.messages: an array, or something Array.isArray rejects
NotArray == [isArray |-> FALSE]
Arr(items) == [isArray |-> TRUE, items |-> items]

\* what request.json() can produce
InvalidJson == [kind |-> "invalid"]
JsonNull == [kind |-> "null"]
JsonScalar == [kind |-> "scalar"]
JsonObject(m, l, s) ==
  [kind |-> "object", messages |-> m, targetLang |-> l, style |-> s]

LangValues ==
  {Undef, Null, Str(<<"kk">>), Str(<<"ru">>), Str(<<"zh">>), Str(<<"en">>), Str(<<>>)}
StyleValues == {Undef, Str(<<"concise">>), Str(<<"polite">>), Str(<<"normal">>)}

Bodies ==
  {InvalidJson, JsonNull, JsonScalar}
  \cup { JsonObject(NotArray, l, s) : l \in LangValues, s \in StyleValues }
  \cup { JsonObject(Arr(m), Undef, Undef) : m \in MessageArrays }
  \cup { JsonObject(Arr(m), Str(<<"ru">>), Str(<<"polite">>)) : m \in MessageArrays }

\* env: the two credentials and the two optional model overrides
EnvOf(gk, dk, gm, dm) ==
  [GROQ_API_KEY |-> gk, DEEPSEEK_API_KEY |-> dk, GROQ_MODEL |-> gm, DEEPSEEK_MODEL |-> dm]

Envs ==
  { EnvOf(gk, dk, Undef, Undef) :
      gk \in {Undef, Str(<<"gsk">>)}, dk \in {Undef, Str(<<"dsk">>)} }
  \cup { EnvOf(Str(<<"gsk">>), Str(<<"dsk">>), Str(<<"llama-x">>), Str(<<"deepseek-x">>)),
         EnvOf(Str(<<>>), Str(<<>>), Undef, Undef) }

\* ------------------------------------------------------- Prompt Composer
\* body.<name>: a property read on a non-null JSON value
BodyMessages(body) == IF body.kind = "object" THEN body.messages ELSE NotArray
BodyTargetLang(body) == IF body.kind = "object" THEN body.targetLang ELSE Undef
BodyStyle(body) == IF body.kind = "object" THEN body.style ELSE Undef

messages(body) ==
  IF BodyMessages(body).isArray THEN BodyMessages(body).items ELSE <<>>

targetLang(body) == OrElse(BodyTargetLang(body), Str(<<"kk">>))
style(body) == OrElse(BodyStyle(body), Str(<<"normal">>))

\* variant: the final branch is taken for Kazakh instead of Chinese
langRule_KazakhLast(body) ==
  IF targetLang(body) = Str(<<"ru">>) THEN "Reply ONLY in Russian. Never use English."
  ELSE IF targetLang(body) = Str(<<"zh">>) THEN "Reply ONLY in Simplified Chinese. Never use English."
  ELSE "Reply ONLY in Kazakh. Never use English."

langRule(body) ==
  IF targetLang(body) = Str(<<"kk">>) THEN "Reply ONLY in Kazakh. Never use English."
  ELSE IF targetLang(body) = Str(<<"ru">>) THEN "Reply ONLY in Russian. Never use English."
  ELSE "Reply ONLY in Simplified Chinese. Never use English."

styleRule(body) ==
  IF style(body) = Str(<<"concise">>) THEN "Be concise."
  ELSE IF style(body) = Str(<<"polite">>) THEN "Be polite."
  ELSE "Be natural and helpful."

\* [a, b, c, d].join(" ")
system(body) ==
  << "You are a travel translation and phrase assistant for Kazakhstan.", " ",
     langRule(body), " ", styleRule(body), " ",
     "When helpful, output short, ready-to-say phrases." >>

\* variant: the system message is appended instead of prepended
FinalMessagesOf_SystemLast(body) ==
  messages(body) \o <<[role |-> "system", content |-> system(body)]>>

FinalMessagesOf(body) ==
  <<[role |-> "system", content |-> system(body)]>> \o messages(body)

NoMessages == <<>>

\* ----------------------------------------------------- provider responses
Digit(d) ==
  CASE d = 0 -> "0" [] d = 1 -> "1" [] d = 2 -> "2" [] d = 3 -> "3" [] d = 4 -> "4"
    [] d = 5 -> "5" [] d = 6 -> "6" [] d = 7 -> "7" [] d = 8 -> "8" [] d = 9 -> "9"

RECURSIVE Decimal(_)
\* `${n}` for a non-negative integer
Decimal(n) == IF n < 10 THEN <<Digit(n)>> ELSE Decimal(n \div 10) \o <<Digit(n % 10)>>

\* the fields of a parsed provider document that the normalizer reads:
\* error, choices[0].message.content, choices[0].text, text
Data(error, content, ctext, text) ==
  [error |-> error, content |-> content, ctext |-> ctext, text |-> text]

JsonBody(d) == [kind |-> "json", data |-> d]
TextBody(raw) == [kind |-> "notjson", raw |-> raw]
\* a body whose read rejects, and one whose read never completes
BrokenBody == [kind |-> "broken"]
StalledBody == [kind |-> "stalled"]

ShortRaw == <<"<", "h", "t", "m", "l", ">">>
LongRaw == [i \in 1..(SliceLen + RawExcess) |-> IF i <= SliceLen THEN "a" ELSE "z"]

ResponseBodies ==
  { JsonBody(Data(Undef, Str(<<"Salem">>), Undef, Undef)),
    JsonBody(Data(Undef, Str(<<>>), Str(<<"Rakhmet">>), Str(<<"Sau">>))),
    JsonBody(Data(Undef, Undef, Undef, Str(<<"Sau">>))),
    JsonBody(Data(Undef, Undef, Undef, Undef)),
    JsonBody(Data(Obj(Str(<<"X">>)), Str(<<"Salem">>), Undef, Undef)),
    JsonBody(Data(Str(<<"Y">>), Undef, Undef, Undef)),
    JsonBody(Data(Obj(Undef), Undef, Undef, Undef)),
    TextBody(ShortRaw), TextBody(LongRaw), TextBody(<<>>),
    BrokenBody, StalledBody }

Statuses == {200, 503}

Responses == [status : Statuses, body : ResponseBodies]

NoRes == [none |-> TRUE]

\* variant: only the lower end of the success range is tested
ok_NoUpperBound(r) == r.status >= 200

\* res.ok
ok(r) == r.status \in 200..299

\* errors with which fetch itself rejects
NetworkError == Err(<<"TypeError">>, <<"fetch failed">>)
SilentNetworkError == Err(<<"Error">>, <<>>)
AbortError == Err(<<"AbortError">>, <<"The operation was aborted">>)
BodyReadError == Err(<<"TypeError">>, <<"terminated">>)
FetchErrors == {NetworkError, SilentNetworkError}

\* ---------------------------------------------------- Response Normalizer
\* JSON.parse(raw) with the catch of line 66
ParsedData(body) ==
  IF body.kind = "json" THEN body.data
  ELSE Data(Str(Slice(body.raw, SliceLen)), Undef, Undef, Undef)

\* data?.error?.message
ErrorMessage(d) == IF d.error.t = "object" THEN d.error.message ELSE Undef

Threw(e) == [threw |-> TRUE, e |-> e]
Returned(v) == [threw |-> FALSE, text |-> v]

\* variant: the three fields are tried in the reverse order
ExtractedText_Reversed(d) == OrElse(d.text, OrElse(d.ctext, OrElse(d.content, Str(<<>>))))

ExtractedText(d) == OrElse(d.content, OrElse(d.ctext, OrElse(d.text, Str(<<>>))))

\* variant: the text is extracted before the status is looked at
parseOpenAICompat_TextFirst(r) ==
  LET data == ParsedData(r.body) IN
  IF Truthy(ExtractedText(data)) THEN Returned(ExtractedText(data))
  ELSE IF ~ok(r)
    THEN Threw(NewError(OrElse(ErrorMessage(data),
                          OrElse(data.error, Str(<<"HTTP ">> \o Decimal(r.status))))))
  ELSE Threw(NewError(Str(<<"Empty response text">>)))

\* variant: the empty-text check of line 76 is left out
parseOpenAICompat_NoEmptyCheck(r) ==
  LET data == ParsedData(r.body) IN
  IF ~ok(r)
    THEN Threw(NewError(OrElse(ErrorMessage(data),
                          OrElse(data.error, Str(<<"HTTP ">> \o Decimal(r.status))))))
  ELSE Returned(ExtractedText(data))

\* everything of parseOpenAICompat after `await res.text()` has resolved
parseOpenAICompat(r) ==
  LET data == ParsedData(r.body) IN
  IF ~ok(r)
    THEN Threw(NewError(OrElse(ErrorMessage(data),
                          OrElse(data.error, Str(<<"HTTP ">> \o Decimal(r.status))))))
  ELSE IF ~Truthy(ExtractedText(data))
    THEN Threw(NewError(Str(<<"Empty response text">>)))
  ELSE Returned(ExtractedText(data))

\* ------------------------------------------------------------ responses
corsHeaders ==
  [ AccessControlAllowOrigin |-> "*",
    AccessControlAllowMethods |-> "POST,OPTIONS",
    AccessControlAllowHeaders |-> "Content-Type, Authorization",
    ContentType |-> "application/json; charset=utf-8" ]

NoResponse == [none |-> TRUE]
\* new Response(body, {status, headers}); body is "" or a JSON.stringify'd object
Response(status, body) == [status |-> status, body |-> body, headers |-> corsHeaders]
EmptyBody == [kind |-> "empty"]
JsonOf(obj) == [kind |-> "json", obj |-> obj]

\* variant: the preflight is refused instead of answered
PreflightResponse_Refused == Response(405, EmptyBody)

PreflightResponse == Response(DefaultStatus, EmptyBody)
\* variant: the status option is left out of the 400 answer
InvalidJsonResponse_NoStatus ==
  Response(DefaultStatus, JsonOf([error |-> <<"Invalid JSON">>]))

InvalidJsonResponse ==
  Response(InvalidJsonStatus, JsonOf([error |-> <<"Invalid JSON">>]))
\* variant: the engine label of the other branch is pasted into both
SuccessResponse_FixedEngine(text, engine) ==
  Response(DefaultStatus, JsonOf([text |-> text, engine |-> <<"DEEPSEEK">>]))

SuccessResponse(text, engine) ==
  Response(DefaultStatus, JsonOf([text |-> text, engine |-> engine]))

\* the template literal of line 131
\* variant: the two messages are interpolated in the wrong places
TotalFailureText_Swapped(x1, x2) ==
  <<"GROQ", " failed: ">> \o ErrText(x2) \o <<"; ", "DEEPSEEK", " failed: ">> \o ErrText(x1)

TotalFailureText(x1, x2) ==
  <<"GROQ", " failed: ">> \o ErrText(x1) \o <<"; ", "DEEPSEEK", " failed: ">> \o ErrText(x2)

TotalFailureResponse(x1, x2) ==
  Response(TotalFailureStatus, JsonOf([error |-> TotalFailureText(x1, x2)]))

\* body.messages on null (line 23)
NullBodyFault == Err(<<"TypeError">>, <<"Cannot read properties of null">>)

\* ------------------------------------------------- Bounded HTTP Caller
TimerUnset == [state |-> "unset", ms |-> 0]
\* setTimeout(() => ctrl.abort(), ms)
setTimeout(ms) == [state |-> "armed", ms |-> ms]
\* variant: the finally block is missing, nothing cancels the timer
clearTimeout_Noop(t) == t

\* clearTimeout(t): cancels a pending timer, no effect on one that has run
clearTimeout(t) == IF t.state = "armed" THEN [t EXCEPT !.state = "cleared"] ELSE t

\* the outbound POST of lines 87-102
GroqCall(en, msgs) ==
  [ provider |-> GROQ, url |-> GroqUrl,
    authorization |-> <<"Bearer ">> \o ToText(en.GROQ_API_KEY),
    model |-> ToText(OrElse(en.GROQ_MODEL, Str(GroqDefaultModel))),
    messages |-> msgs, ms |-> GroqTimeoutMs ]

\* the outbound POST of lines 111-126
DeepseekCall(en, msgs) ==
  [ provider |-> DEEPSEEK, url |-> DeepseekUrl,
    authorization |-> <<"Bearer ">> \o ToText(en.DEEPSEEK_API_KEY),
    model |-> ToText(OrElse(en.DEEPSEEK_MODEL, Str(DeepseekDefaultModel))),
    messages |-> msgs, ms |-> DeepseekTimeoutMs ]

\* variant: the signal is not handed to fetch, abort() cancels nothing
abort_Unwired(n) == n

\* ctrl.abort() on the signal handed to fetch: a pending exchange is cancelled
abort(n) == IF n \in {"inflight", "body"} THEN "aborted" ELSE n

\* variant: the caller re-issues the request once (an internal retry)
fetchWithTimeout_Retry(call, tm, nt) ==
  /\ timer' = [tm EXCEPT ![call.provider] = setTimeout(call.ms)]
  /\ net' = [nt EXCEPT ![call.provider] = "inflight"]
  /\ netlog' = netlog \o <<call, call>>

\* fetchWithTimeout up to its await: arm the timer, issue the request
fetchWithTimeout(call, tm, nt) ==
  /\ timer' = [tm EXCEPT ![call.provider] = setTimeout(call.ms)]
  /\ net' = [nt EXCEPT ![call.provider] = "inflight"]
  /\ netlog' = Append(netlog, call)

\* ------------------------------------------------- Fallback Orchestrator
\* variant: the credential check is left out
GroqConfigured_Always(en) == TRUE

\* if (env.GROQ_API_KEY) of line 86
GroqConfigured(en) == Truthy(en.GROQ_API_KEY)

\* the GROQ branch of the outer try: lines 86-102 up to the await
TryGroq(msgs) ==
  /\ fetchWithTimeout(GroqCall(env, msgs), timer, net)
  /\ pc' = "await_groq_fetch"
  /\ UNCHANGED <<e1, e2, res, response, fault>>

\* catch (e1) { try { ... await fetchWithTimeout(DEEPSEEK...) : lines 107-126
CatchE1(e, msgs, tm, nt) ==
  /\ e1' = e
  /\ fetchWithTimeout(DeepseekCall(env, msgs), tm, nt)
  /\ pc' = "await_deepseek_fetch"
  /\ UNCHANGED <<e2, response, fault>>

\* catch (e2) { return new Response(... 500) } : lines 129-134
CatchE2(e) ==
  /\ e2' = e
  /\ response' = TotalFailureResponse(e1, e)
  /\ pc' = "done"
  /\ UNCHANGED <<e1, netlog, fault>>

\* lines 11-18: preflight answer, else start reading the body
Receive ==
  /\ pc = "start"
  /\ IF request.method = OPTIONS
       THEN /\ response' = PreflightResponse
            /\ pc' = "done"
       ELSE /\ pc' = "await_json"
            /\ UNCHANGED response
  /\ UNCHANGED <<request, env, finalMessages, timer, net, res, e1, e2, netlog, fault>>

\* lines 18-106: request.json() settles; compose; enter the outer try
JsonSettled ==
  /\ pc = "await_json"
  /\ UNCHANGED <<request, env>>
  /\ IF request.body.kind = "invalid"
       THEN /\ response' = InvalidJsonResponse
            /\ pc' = "done"
            /\ UNCHANGED <<finalMessages, timer, net, res, e1, e2, netlog, fault>>
     ELSE IF request.body.kind = "null"
       THEN /\ fault' = NullBodyFault
            /\ pc' = "crashed"
            /\ UNCHANGED <<finalMessages, timer, net, res, e1, e2, netlog, response>>
     ELSE /\ finalMessages' = FinalMessagesOf(request.body)
          /\ IF GroqConfigured(env)
               THEN TryGroq(FinalMessagesOf(request.body))
               ELSE /\ CatchE1(NewError(Str(<<"GROQ not configured">>)),
                               FinalMessagesOf(request.body), timer, net)
                    /\ UNCHANGED res

\* variant: the timer is kept until the body has been read
GroqFetchResolves_LateClear(r) ==
  /\ pc = "await_groq_fetch"
  /\ net[GROQ] = "inflight"
  /\ res' = [res EXCEPT ![GROQ] = r]
  /\ net' = [net EXCEPT ![GROQ] = "body"]
  /\ pc' = "await_groq_text"
  /\ UNCHANGED <<request, env, finalMessages, timer, e1, e2, netlog, response, fault>>

\* line 55 resolves: finally clears the timer, line 103 starts res.text()
GroqFetchResolves(r) ==
  /\ pc = "await_groq_fetch"
  /\ net[GROQ] = "inflight"
  /\ res' = [res EXCEPT ![GROQ] = r]
  /\ timer' = [timer EXCEPT ![GROQ] = clearTimeout(timer[GROQ])]
  /\ net' = [net EXCEPT ![GROQ] = "body"]
  /\ pc' = "await_groq_text"
  /\ UNCHANGED <<request, env, finalMessages, e1, e2, netlog, response, fault>>

\* line 55 rejects with a network error: finally, then catch (e1)
GroqFetchRejects(e) ==
  /\ pc = "await_groq_fetch"
  /\ net[GROQ] = "inflight"
  /\ CatchE1(e, finalMessages,
             [timer EXCEPT ![GROQ] = clearTimeout(timer[GROQ])],
             [net EXCEPT ![GROQ] = "failed"])
  /\ UNCHANGED <<request, env, finalMessages, res>>

\* the callback of line 53 runs: ctrl.abort() cancels the request
GroqTimerFires ==
  /\ timer[GROQ].state = "armed"
  /\ timer' = [timer EXCEPT ![GROQ].state = "fired"]
  /\ net' = [net EXCEPT ![GROQ] = abort(net[GROQ])]
  /\ UNCHANGED <<request, env, pc, finalMessages, res, e1, e2, netlog, response, fault>>

\* the aborted fetch of line 55 rejects with AbortError: finally, catch (e1)
GroqAbortRejects ==
  /\ pc = "await_groq_fetch"
  /\ net[GROQ] = "aborted"
  /\ CatchE1(AbortError, finalMessages,
             [timer EXCEPT ![GROQ] = clearTimeout(timer[GROQ])], net)
  /\ UNCHANGED <<request, env, finalMessages, res>>

\* line 64 resolves; lines 65-77; line 104 returns or catch (e1) is entered
GroqTextResolves ==
  /\ pc = "await_groq_text"
  /\ net[GROQ] = "body"
  /\ res[GROQ].body.kind \in {"json", "notjson"}
  /\ UNCHANGED <<request, env, finalMessages, res>>
  /\ LET out == parseOpenAICompat(res[GROQ]) IN
     IF out.threw
       THEN CatchE1(out.e, finalMessages, timer, [net EXCEPT ![GROQ] = "closed"])
       ELSE /\ response' = SuccessResponse(out.text, <<"GROQ">>)
            /\ pc' = "done"
            /\ net' = [net EXCEPT ![GROQ] = "closed"]
            /\ UNCHANGED <<timer, e1, e2, netlog, fault>>

\* line 64 rejects (the body stream fails or was aborted): catch (e1)
GroqTextRejects ==
  /\ pc = "await_groq_text"
  /\ \/ net[GROQ] = "body" /\ res[GROQ].body.kind = "broken"
     \/ net[GROQ] = "aborted"
  /\ CatchE1(IF net[GROQ] = "aborted" THEN AbortError ELSE BodyReadError,
             finalMessages, timer,
             [net EXCEPT ![GROQ] = IF net[GROQ] = "aborted" THEN "aborted" ELSE "failed"])
  /\ UNCHANGED <<request, env, finalMessages, res>>

\* line 55 resolves for DEEPSEEK: finally clears the timer, line 127 starts res.text()
DeepseekFetchResolves(r) ==
  /\ pc = "await_deepseek_fetch"
  /\ net[DEEPSEEK] = "inflight"
  /\ res' = [res EXCEPT ![DEEPSEEK] = r]
  /\ timer' = [timer EXCEPT ![DEEPSEEK] = clearTimeout(timer[DEEPSEEK])]
  /\ net' = [net EXCEPT ![DEEPSEEK] = "body"]
  /\ pc' = "await_deepseek_text"
  /\ UNCHANGED <<request, env, finalMessages, e1, e2, netlog, response, fault>>

\* line 55 rejects with a network error: finally, then catch (e2)
DeepseekFetchRejects(e) ==
  /\ pc = "await_deepseek_fetch"
  /\ net[DEEPSEEK] = "inflight"
  /\ CatchE2(e)
  /\ timer' = [timer EXCEPT ![DEEPSEEK] = clearTimeout(timer[DEEPSEEK])]
  /\ net' = [net EXCEPT ![DEEPSEEK] = "failed"]
  /\ UNCHANGED <<request, env, finalMessages, res>>

\* the callback of line 53 runs for the DEEPSEEK call
DeepseekTimerFires ==
  /\ timer[DEEPSEEK].state = "armed"
  /\ timer' = [timer EXCEPT ![DEEPSEEK].state = "fired"]
  /\ net' = [net EXCEPT ![DEEPSEEK] = abort(net[DEEPSEEK])]
  /\ UNCHANGED <<request, env, pc, finalMessages, res, e1, e2, netlog, response, fault>>

\* the aborted DEEPSEEK fetch rejects with AbortError: finally, catch (e2)
DeepseekAbortRejects ==
  /\ pc = "await_deepseek_fetch"
  /\ net[DEEPSEEK] = "aborted"
  /\ CatchE2(AbortError)
  /\ timer' = [timer EXCEPT ![DEEPSEEK] = clearTimeout(timer[DEEPSEEK])]
  /\ UNCHANGED <<request, env, finalMessages, res, net>>

\* line 64 resolves for DEEPSEEK; line 128 returns or catch (e2) is entered
DeepseekTextResolves ==
  /\ pc = "await_deepseek_text"
  /\ net[DEEPSEEK] = "body"
  /\ res[DEEPSEEK].body.kind \in {"json", "notjson"}
  /\ net' = [net EXCEPT ![DEEPSEEK] = "closed"]
  /\ UNCHANGED <<request, env, finalMessages, res, timer>>
  /\ LET out == parseOpenAICompat(res[DEEPSEEK]) IN
     IF out.threw
       THEN CatchE2(out.e)
       ELSE /\ response' = SuccessResponse(out.text, <<"DEEPSEEK">>)
            /\ pc' = "done"
            /\ UNCHANGED <<e1, e2, netlog, fault>>

\* line 64 rejects for DEEPSEEK (stream fails or was aborted): catch (e2)
DeepseekTextRejects ==
  /\ pc = "await_deepseek_text"
  /\ \/ net[DEEPSEEK] = "body" /\ res[DEEPSEEK].body.kind = "broken"
     \/ net[DEEPSEEK] = "aborted"
  /\ CatchE2(IF net[DEEPSEEK] = "aborted" THEN AbortError ELSE BodyReadError)
  /\ net' = [net EXCEPT ![DEEPSEEK] = IF net[DEEPSEEK] = "aborted" THEN "aborted" ELSE "failed"]
  /\ UNCHANGED <<request, env, finalMessages, res, timer>>

Init ==
  /\ request \in [method : Methods, body : Bodies]
  /\ env \in Envs
  /\ pc = "start"
  /\ finalMessages = NoMessages
  /\ timer = [p \in Providers |-> TimerUnset]
  /\ net = [p \in Providers |-> "idle"]
  /\ res = [p \in Providers |-> NoRes]
  /\ e1 = NoErr
  /\ e2 = NoErr
  /\ netlog = <<>>
  /\ response = NoResponse
  /\ fault = NoErr

Next ==
  \/ Receive
  \/ JsonSettled
  \/ \E r \in Responses : GroqFetchResolves(r)
  \/ \E e \in FetchErrors : GroqFetchRejects(e)
  \/ GroqTimerFires
  \/ GroqAbortRejects
  \/ GroqTextResolves
  \/ GroqTextRejects
  \/ \E r \in Responses : DeepseekFetchResolves(r)
  \/ \E e \in FetchErrors : DeepseekFetchRejects(e)
  \/ DeepseekTimerFires
  \/ DeepseekAbortRejects
  \/ DeepseekTextResolves
  \/ DeepseekTextRejects

Spec == Init /\ [][Next]_vars

TypeOK ==
  /\ pc \in {"start", "await_json", "await_groq_fetch", "await_groq_text",
             "await_deepseek_fetch", "await_deepseek_text", "done", "crashed"}
  /\ \A p \in Providers : timer[p].state \in {"unset", "armed", "fired", "cleared"}
  /\ \A p \in Providers : net[p] \in {"idle", "inflight", "body", "aborted", "failed", "closed"}

\* the scheduling the runtime guarantees: a settled promise's continuation
\* runs, a body that can be read is read, an armed timer fires unless cleared
Fairness ==
  /\ WF_vars(Receive) /\ WF_vars(JsonSettled)
  /\ WF_vars(GroqTimerFires) /\ WF_vars(GroqAbortRejects)
  /\ WF_vars(GroqTextResolves) /\ WF_vars(GroqTextRejects)
  /\ WF_vars(DeepseekTimerFires) /\ WF_vars(DeepseekAbortRejects)
  /\ WF_vars(DeepseekTextResolves) /\ WF_vars(DeepseekTextRejects)

FairSpec == Spec /\ Fairness

\* ------------------------------------------------------------ vocabulary
CallsTo(p) == Cardinality({ i \in 1..Len(netlog) : netlog[i].provider = p })
KeyAbsent(v) == v = Undef \/ v = Str(<<>>)
\* the handler got past request.json() with a value whose properties can be read
Composed == request.method = POST /\ request.body.kind \notin {"invalid", "null"}
                /\ pc \notin {"start", "await_json"}
InFlight(p) == net[p] \in {"inflight", "body"}
IsSuccess(rsp) == rsp # NoResponse /\ rsp.status = 200 /\ rsp.body.kind = "json"
IsTotalFailure(rsp) == rsp # NoResponse /\ rsp.status = 500
\* the error caught for provider p's attempt
AttemptError(p) == IF p = GROQ THEN e1 ELSE e2

\* ----------------------------------------------------------------- C1
C1_HasText(d) == Truthy(d.content) \/ Truthy(d.ctext) \/ Truthy(d.text)
C1_FirstText(d) ==
  IF Truthy(d.content) THEN d.content ELSE IF Truthy(d.ctext) THEN d.ctext ELSE d.text

\* the GROQ credential is present and GROQ answered with a success status
\* and a document that carries non-empty text
C1_PrimaryGood ==
  /\ ~KeyAbsent(env.GROQ_API_KEY)
  /\ res[GROQ] # NoRes
  /\ res[GROQ].status \in 200..299
  /\ res[GROQ].body.kind = "json"
  /\ C1_HasText(res[GROQ].body.data)

\* C1: when the GROQ credential is present and the GROQ call completes with
\* a success status and non-empty extractable text, the handler answers
\* {text, engine: "GROQ"} with that text, and no request is ever issued to
\* the DEEPSEEK endpoint.
C1_ShortCircuit ==
  C1_PrimaryGood =>
    /\ CallsTo(DEEPSEEK) = 0
    /\ net[DEEPSEEK] = "idle"
    /\ net[GROQ] = "closed" =>
         /\ pc = "done"
         /\ response # NoResponse
         /\ response.status = 200
         /\ response.body = JsonOf([text |-> C1_FirstText(res[GROQ].body.data),
                                    engine |-> <<"GROQ">>])

C1_Witness ==
  /\ C1_PrimaryGood
  /\ pc = "done"
  /\ IsSuccess(response)
  /\ response.body.obj.engine = <<"GROQ">>
  /\ netlog # <<>>

\* ----------------------------------------------------------------- C2
\* C2: with GROQ_API_KEY absent no request is issued to the GROQ endpoint,
\* the GROQ attempt is recorded as failed with the "not configured" message,
\* and the first network event of the request is the DEEPSEEK call.
C2_PrimaryUnconfigured ==
  KeyAbsent(env.GROQ_API_KEY) =>
    /\ CallsTo(GROQ) = 0
    /\ net[GROQ] = "idle"
    /\ timer[GROQ].state = "unset"
    /\ netlog # <<>> => netlog[1].provider = DEEPSEEK
    /\ Composed =>
         /\ e1.message = <<"GROQ not configured">>
         /\ netlog # <<>>

C2_Witness ==
  /\ KeyAbsent(env.GROQ_API_KEY)
  /\ Composed
  /\ pc = "await_deepseek_fetch"
  /\ Len(netlog) = 1

\* ----------------------------------------------------------------- C3
\* the GROQ attempt is over and did not produce text, told from the
\* exchange alone (not from e1)
C3_MissingCredential == Composed /\ KeyAbsent(env.GROQ_API_KEY)
C3_NetworkError == net[GROQ] = "failed" /\ res[GROQ] = NoRes
C3_Aborted == timer[GROQ].state = "fired" /\ pc # "await_groq_fetch"
C3_BodyReadFailed == net[GROQ] = "failed" /\ res[GROQ] # NoRes
C3_BadStatus == net[GROQ] = "closed" /\ res[GROQ].status \notin 200..299
C3_Unparseable == net[GROQ] = "closed" /\ res[GROQ].body.kind = "notjson"
C3_EmptyText ==
  /\ net[GROQ] = "closed"
  /\ res[GROQ].body.kind = "json"
  /\ ~C1_HasText(res[GROQ].body.data)

C3_PrimaryFailed ==
  \/ C3_MissingCredential \/ C3_NetworkError \/ C3_Aborted \/ C3_BodyReadFailed
  \/ C3_BadStatus \/ C3_Unparseable \/ C3_EmptyText

C3_FallbackMade ==
  C3_PrimaryFailed =>
    /\ e1 # NoErr
    /\ CallsTo(DEEPSEEK) = 1
    /\ netlog[Len(netlog)].provider = DEEPSEEK
    /\ (pc = "done" /\ IsSuccess(response)) => response.body.obj.engine = <<"DEEPSEEK">>
    /\ C3_MissingCredential => e1.message = <<"GROQ not configured">>
    /\ C3_NetworkError => e1 \in FetchErrors
    /\ C3_Aborted => e1 = AbortError
    /\ C3_BodyReadFailed => e1 = BodyReadError
    /\ (C3_EmptyText /\ ~C3_BadStatus) => e1.message = <<"Empty response text">>

\* C3: every kind of failure of the GROQ attempt (missing credential,
\* network error, abort, non-2xx status, unparseable body, empty text)
\* leads to exactly one DEEPSEEK attempt, and the failure message of the
\* GROQ attempt stays unchanged until the request terminates.
C3_PrimaryFailureFallsBack ==
  /\ [](C3_FallbackMade)
  /\ [][e1 # NoErr => e1' = e1]_vars

C3_Witness ==
  /\ C3_EmptyText
  /\ ~C3_BadStatus
  /\ pc = "done"
  /\ CallsTo(DEEPSEEK) = 1
  /\ e2 # NoErr

\* ----------------------------------------------------------------- C4
\* in txt the name GROQ is followed by x, then the name DEEPSEEK by y
C4_Attributed(txt, x, y) ==
  \E i \in 1..Len(txt) :
    /\ txt[i] = "GROQ"
    /\ \E k \in (i + 1)..Len(txt) :
         /\ txt[k] = "DEEPSEEK"
         /\ Contains(SubSeq(txt, i + 1, k - 1), x)
         /\ Contains(SubSeq(txt, k + 1, Len(txt)), y)

\* C4: when the GROQ attempt failed with message X and the DEEPSEEK attempt
\* with message Y, the answer has status 500 and a body {error} whose text
\* names GROQ with X and DEEPSEEK with Y; a 500 answer is given only when
\* both attempts failed.
C4_TotalFailure ==
  /\ (e1 # NoErr /\ e2 # NoErr) =>
       /\ pc = "done"
       /\ IsTotalFailure(response)
       /\ response.body.kind = "json"
       /\ DOMAIN response.body.obj = {"error"}
       /\ C4_Attributed(response.body.obj.error, e1.message, e2.message)
  /\ IsTotalFailure(response) =>
       /\ e1 # NoErr /\ e2 # NoErr
       /\ CallsTo(DEEPSEEK) = 1
       /\ ~IsSuccess(response)

C4_Witness ==
  /\ IsTotalFailure(response)
  /\ e1.message = <<"X">>
  /\ e2.message = <<"Y">>

\* ----------------------------------------------------------------- C5
\* C5: when the body of a POST request is not JSON the handler answers
\* 400 {error: "Invalid JSON"} and terminates; no provider is ever
\* contacted and no attempt is ever recorded.
C5_InvalidJson ==
  request.body.kind = "invalid" =>
    /\ netlog = <<>>
    /\ \A p \in Providers : net[p] = "idle" /\ timer[p].state = "unset"
    /\ e1 = NoErr /\ e2 = NoErr
    /\ pc \in {"start", "await_json", "done"}
    /\ (request.method = POST /\ pc = "done") =>
         /\ response # NoResponse
         /\ response.status = 400
         /\ response.body = JsonOf([error |-> <<"Invalid JSON">>])

C5_Witness ==
  /\ request.method = POST
  /\ request.body.kind = "invalid"
  /\ pc = "done"
  /\ response.status = 400

\* ----------------------------------------------------------------- C6
\* C6: for each of the two providers, when its API key is absent no request
\* is issued to its endpoint, and the absence is an attempt failure, not a
\* fault of the request.
C6_AbsentKeyDisablesProvider ==
  /\ KeyAbsent(env.GROQ_API_KEY) => CallsTo(GROQ) = 0
  /\ KeyAbsent(env.DEEPSEEK_API_KEY) => CallsTo(DEEPSEEK) = 0
  /\ (Composed /\ KeyAbsent(env.GROQ_API_KEY)) => e1 # NoErr

\* ----------------------------------------------------------------- C7
C7_Over(p) == net[p] \in {"idle", "failed", "aborted", "closed"}

\* C7: the two attempts are never in flight together, and the DEEPSEEK call
\* is issued only after the GROQ attempt has failed completely: its fetch
\* has settled or was aborted, and its timer is no longer armed.
C7_Sequential ==
  /\ ~(InFlight(GROQ) /\ InFlight(DEEPSEEK))
  /\ CallsTo(DEEPSEEK) > 0 =>
       /\ C7_Over(GROQ)
       /\ timer[GROQ].state # "armed"
       /\ e1 # NoErr
       /\ ~IsSuccess(response) \/ response.body.obj.engine # <<"GROQ">>

C7_Witness ==
  /\ InFlight(DEEPSEEK)
  /\ CallsTo(GROQ) = 1
  /\ timer[GROQ].state = "cleared"
  /\ timer[DEEPSEEK].state = "armed"

\* ----------------------------------------------------------------- C8
\* C8: for every POST request whose body parses as JSON (null included) and
\* every outcome of the providers, no exception escapes the handler and
\* the answer it returns carries a JSON object.
C8_AlwaysJsonObject ==
  (request.method = POST /\ request.body.kind # "invalid") =>
    /\ fault = NoErr
    /\ pc # "crashed"
    /\ pc = "done" => (response # NoResponse /\ response.body.kind = "json")

\* ----------------------------------------------------------------- C9
C9_TimedOut == timer[GROQ].state = "fired"

\* C9: if the 6500 ms GROQ timer fires before the GROQ fetch has completed,
\* the request in flight is aborted, the GROQ attempt fails with the abort
\* error, and the DEEPSEEK attempt is then made with its own 8500 ms timer.
C9_TimeoutFallsBack ==
  /\ [][(timer[GROQ].state = "armed" /\ timer'[GROQ].state = "fired") =>
          /\ timer[GROQ].ms = 6500
          /\ res[GROQ] = NoRes
          /\ net[GROQ] = "inflight"
          /\ net'[GROQ] = "aborted"
          /\ CallsTo(DEEPSEEK) = 0]_vars
  /\ []((C9_TimedOut /\ e1 # NoErr) =>
          /\ e1 = AbortError
          /\ res[GROQ] = NoRes
          /\ CallsTo(DEEPSEEK) = 1
          /\ netlog[Len(netlog)].provider = DEEPSEEK
          /\ netlog[Len(netlog)].ms = 8500
          /\ timer[DEEPSEEK].ms = 8500
          /\ timer[DEEPSEEK].state # "unset")
  /\ C9_TimedOut ~> (e1 = AbortError /\ CallsTo(DEEPSEEK) = 1)

C9_Witness ==
  /\ C9_TimedOut
  /\ e1 = AbortError
  /\ pc = "await_deepseek_fetch"
  /\ timer[DEEPSEEK] = [state |-> "armed", ms |-> 8500]

\* ---------------------------------------------------------------- C10
\* C10: each endpoint receives at most one call per request, so at most two
\* calls are made in all, and GROQ is never called after DEEPSEEK.
C10_NoRetry ==
  /\ CallsTo(GROQ) <= 1
  /\ CallsTo(DEEPSEEK) <= 1
  /\ Len(netlog) <= 2
  /\ \A i, j \in 1..Len(netlog) :
       (i < j /\ netlog[i].provider = DEEPSEEK) => netlog[j].provider # GROQ
  /\ CallsTo(DEEPSEEK) > 0 => ~InFlight(GROQ)

C10_Witness ==
  /\ pc = "done"
  /\ Len(netlog) = 2
  /\ netlog[1].provider = GROQ
  /\ netlog[2].provider = DEEPSEEK

\* ---------------------------------------------------------------- C11
C11_First300(raw) == SubSeq(raw, 1, IF Len(raw) <= 300 THEN Len(raw) ELSE 300)

\* C11: for every completed provider response whose body is not JSON,
\* whatever its status, the normalizer fails and the failure message
\* contains the first 300 characters of the raw body.
C11_RawInMessage ==
  \A p \in Providers :
    (net[p] = "closed" /\ res[p].body.kind = "notjson") =>
      /\ AttemptError(p) # NoErr
      /\ Contains(AttemptError(p).message, C11_First300(res[p].body.raw))

\* ---------------------------------------------------------------- C12
C12_Kazakh == "Reply ONLY in Kazakh. Never use English."
C12_Russian == "Reply ONLY in Russian. Never use English."
C12_Chinese == "Reply ONLY in Simplified Chinese. Never use English."

\* the targetLang property of the request body as the caller sent it
C12_Lang == IF request.body.kind = "object" THEN request.body.targetLang ELSE Undef

\* every system message sent carries directive d and neither of the others
C12_Selects(d) ==
  /\ netlog # <<>>
  /\ \A i \in 1..Len(netlog) :
       LET c == netlog[i].messages[1].content IN
       \A x \in {C12_Kazakh, C12_Russian, C12_Chinese} : Contains(c, <<x>>) <=> x = d

\* C12 as stated: kk selects the Kazakh directive, ru the Russian one, and
\* every other value the Simplified Chinese one.
C12_OtherwiseChinese ==
  Composed =>
    C12_Selects(IF C12_Lang = Str(<<"kk">>) THEN C12_Kazakh
                ELSE IF C12_Lang = Str(<<"ru">>) THEN C12_Russian
                ELSE C12_Chinese)

C12_Falsy(v) == v = Undef \/ v = Null \/ v = Str(<<>>)

\* C12 amended: kk, and an absent or falsy targetLang (which line 24
\* replaces by kk), select the Kazakh directive; ru selects the Russian
\* one; every other value selects the Simplified Chinese one.
C12_LangDirective ==
  Composed =>
    C12_Selects(IF C12_Lang = Str(<<"kk">>) \/ C12_Falsy(C12_Lang) THEN C12_Kazakh
                ELSE IF C12_Lang = Str(<<"ru">>) THEN C12_Russian
                ELSE C12_Chinese)

C12_Witness ==
  /\ Composed
  /\ C12_Lang = Str(<<"en">>)
  /\ Len(netlog) = 2
  /\ Contains(netlog[2].messages[1].content, <<C12_Chinese>>)

\* ---------------------------------------------------------------- C13
\* what the caller put in body.messages, when that is an array
C13_CallerItems ==
  IF request.body.kind = "object" /\ request.body.messages.isArray
    THEN request.body.messages.items ELSE <<>>

C13_ListOk(list) ==
  /\ Len(list) = 1 + Len(C13_CallerItems)
  /\ list[1].role = "system"
  /\ \A k \in 1..Len(C13_CallerItems) : list[k + 1] = C13_CallerItems[k]

\* C13: the message list sent to a provider is one synthesized system
\* message followed by the caller's messages, in order and unmodified; it is
\* the system message alone when body.messages is not an array; and GROQ
\* and DEEPSEEK are sent the same list.
C13_ComposedList ==
  /\ Composed => (netlog # <<>> /\ C13_ListOk(finalMessages))
  /\ \A i \in 1..Len(netlog) : C13_ListOk(netlog[i].messages)
  /\ \A i, j \in 1..Len(netlog) : netlog[i].messages = netlog[j].messages

C13_Witness ==
  /\ Len(netlog) = 2
  /\ Len(C13_CallerItems) = 2
  /\ C13_CallerItems[1] # C13_CallerItems[2]
  /\ netlog[1].provider = GROQ
  /\ netlog[2].provider = DEEPSEEK

\* ---------------------------------------------------------------- C14
\* C14: an OPTIONS request is answered with a success status, an empty
\* body and the CORS headers (any origin; POST,OPTIONS; Content-Type,
\* Authorization), whatever its body and the credentials, and no provider
\* is contacted.
C14_Preflight ==
  request.method = "OPTIONS" =>
    /\ netlog = <<>>
    /\ \A p \in Providers : net[p] = "idle" /\ timer[p].state = "unset"
    /\ pc \in {"start", "done"}
    /\ pc = "done" =>
         /\ response # NoResponse
         /\ response.status \in 200..299
         /\ response.body = [kind |-> "empty"]
         /\ response.headers.AccessControlAllowOrigin = "*"
         /\ response.headers.AccessControlAllowMethods = "POST,OPTIONS"
         /\ response.headers.AccessControlAllowHeaders = "Content-Type, Authorization"

C14_Witness ==
  /\ request.method = "OPTIONS"
  /\ request.body.kind = "invalid"
  /\ KeyAbsent(env.DEEPSEEK_API_KEY)
  /\ pc = "done"
  /\ response.status = 200

\* ---------------------------------------------------------------- C15
C15_AwaitFetch(p) == IF p = GROQ THEN "await_groq_fetch" ELSE "await_deepseek_fetch"

C15_NoLeak ==
  /\ \A p \in Providers :
       /\ timer[p].state = "armed" => (pc = C15_AwaitFetch(p) /\ net[p] = "inflight")
       /\ net[p] \in {"body", "closed", "failed"} => timer[p].state = "cleared"
       /\ net[p] = "aborted" => timer[p].state = "fired"
  /\ pc \in {"done", "crashed"} => \A p \in Providers : timer[p].state # "armed"

\* C15: on every path out of fetchWithTimeout (fetch resolved, rejected by
\* a network error, aborted by the timer) its timer is no longer armed, so
\* no timer is armed in a terminal state and no abort fires after the call
\* has returned.
C15_TimerCleanup ==
  /\ [](C15_NoLeak)
  /\ [][\A p \in Providers :
          (timer[p].state # "fired" /\ timer'[p].state = "fired") =>
             (pc = C15_AwaitFetch(p) /\ timer[p].state = "armed")]_vars

C15_Witness ==
  /\ pc = "done"
  /\ timer[GROQ].state = "cleared"
  /\ net[GROQ] = "failed"
  /\ timer[DEEPSEEK].state = "fired"

\* ---------------------------------------------------------------- C16
C16_Http(status) ==
  IF status = 503 THEN <<"HTTP ", "5", "0", "3">> ELSE <<"HTTP ", "?">>

\* the message line 69 is to give for response r, case by case
C16_Expected(r) ==
  IF r.body.kind = "notjson"
    THEN IF r.body.raw # <<>> THEN C11_First300(r.body.raw) ELSE C16_Http(r.status)
  ELSE IF r.body.data.error.t = "object"
    THEN IF r.body.data.error.message.t = "string" /\ r.body.data.error.message.s # <<>>
           THEN r.body.data.error.message.s
           ELSE <<"[object Object]">>
  ELSE IF r.body.data.error.t = "string" /\ r.body.data.error.s # <<>>
    THEN r.body.data.error.s
  ELSE C16_Http(r.status)

\* C16: for every completed response with a non-success status the
\* normalizer fails, even if the body carries completion text; the message
\* is error.message if non-empty, else the error field if non-empty, else
\* "HTTP {status}"; the attempt counts as failed and triggers the fallback.
C16_BadStatusFails ==
  \A p \in Providers :
    (net[p] = "closed" /\ res[p].status \notin 200..299) =>
      /\ AttemptError(p) # NoErr
      /\ AttemptError(p).message = C16_Expected(res[p])
      /\ p = GROQ => CallsTo(DEEPSEEK) = 1
      /\ p = DEEPSEEK => (pc = "done" /\ IsTotalFailure(response))
      /\ IsSuccess(response) => response.body.obj.engine # <<p>>

C16_Witness ==
  /\ net[GROQ] = "closed"
  /\ res[GROQ].status = 503
  /\ res[GROQ].body.kind = "json"
  /\ Truthy(res[GROQ].body.data.content)
  /\ e1.message = <<"X">>
  /\ net[DEEPSEEK] = "closed"
  /\ res[DEEPSEEK].status = 503
  /\ e2.message = <<"HTTP ", "5", "0", "3">>

\* ---------------------------------------------------------------- C17
\* C17: for a success-status response with a JSON body the text returned is
\* the first non-empty of choices[0].message.content, choices[0].text and
\* text, in that order; if all three are empty the normalizer fails with
\* the empty-response error, so a success never carries empty text.
C17_ExtractionOrder ==
  /\ \A p \in Providers :
       (net[p] = "closed" /\ res[p].status \in 200..299 /\ res[p].body.kind = "json") =>
         IF C1_HasText(res[p].body.data)
           THEN /\ pc = "done"
                /\ IsSuccess(response)
                /\ response.body.obj.engine = <<p>>
                /\ response.body.obj.text = C1_FirstText(res[p].body.data)
           ELSE AttemptError(p).message = <<"Empty response text">>
  /\ IsSuccess(response) =>
       (response.body.obj.text.t = "string" /\ response.body.obj.text.s # <<>>)

C17_Witness ==
  /\ net[DEEPSEEK] = "closed"
  /\ res[DEEPSEEK].status = 200
  /\ res[DEEPSEEK].body = JsonBody(Data(Undef, Str(<<>>), Str(<<"Rakhmet">>), Str(<<"Sau">>)))
  /\ IsSuccess(response)
  /\ response.body.obj.text = Str(<<"Rakhmet">>)

\* ---------------------------------------------------------------- C18
\* C18: a success answer {text, engine} is given only if the provider named
\* by engine returned a success-status response from which non-empty text
\* was extracted, and text is that text; engine is DEEPSEEK only if the GROQ
\* attempt failed first; no success comes from a provider whose attempt
\* failed.
C18_EngineAttribution ==
  IsSuccess(response) =>
    \E p \in Providers :
      /\ response.body.obj.engine = <<p>>
      /\ net[p] = "closed"
      /\ res[p].status \in 200..299
      /\ res[p].body.kind = "json"
      /\ C1_HasText(res[p].body.data)
      /\ response.body.obj.text = C1_FirstText(res[p].body.data)
      /\ AttemptError(p) = NoErr
      /\ p = DEEPSEEK => (e1 # NoErr /\ CallsTo(DEEPSEEK) = 1)
      /\ p = GROQ => (CallsTo(DEEPSEEK) = 0 /\ e2 = NoErr)

C18_Witness ==
  /\ IsSuccess(response)
  /\ response.body.obj.engine = <<"DEEPSEEK">>
  /\ e1 = AbortError
  /\ res[DEEPSEEK].status = 200

\* ---------------------------------------------------------------- C19
\* C19: given that armed timers fire and aborted fetches reject, every
\* request (here: every one whose body is not null) eventually reaches a
\* terminal answer, whatever the providers do, also when a provider sends
\* the response headers and never finishes the body.
C19_Terminates ==
  (request.body.kind # "null") => <>(pc = "done" /\ response # NoResponse)

\* ---------------------------------------------------------------- C20
C20_AwaitText(p) == IF p = GROQ THEN "await_groq_text" ELSE "await_deepseek_text"

\* C20: the timer of an attempt covers only the time from issuing the fetch
\* until the fetch resolves or rejects; when the body starts being read the
\* timer is already cleared, so it never aborts an attempt during body
\* reading or normalization.
C20_DeadlineScope ==
  /\ [](\A p \in Providers :
          /\ pc = C20_AwaitText(p) => (timer[p].state = "cleared" /\ net[p] = "body")
          /\ res[p] # NoRes => timer[p].state = "cleared"
          /\ AttemptError(p) = AbortError => res[p] = NoRes)
  /\ [][\A p \in Providers :
          (timer[p].state # "fired" /\ timer'[p].state = "fired") =>
             (res[p] = NoRes /\ pc = C15_AwaitFetch(p))]_vars

C20_Witness ==
  /\ pc = "await_groq_text"
  /\ res[GROQ].body.kind = "stalled"
  /\ timer[GROQ].state = "cleared"

====
